---- MODULE Spec2Model ----
(***************************************************************************)
(* RRR compressed bitmap (ext/c/stupidedi/reader/rrr.c): binomial table,   *)
(* block codec, construction and the access / rank / select queries.       *)
(*                                                                         *)
(* A uint64_t that holds data (a block, an offset, a binomial coefficient) *)
(* is a set of bit positions within 0..63, so that shifts, masks, carries  *)
(* and the 64-bit width are explicit.  Sizes, indices, classes and ranks   *)
(* stay far below 2^31 within the bounds and are plain integers.           *)
(***************************************************************************)
EXTENDS Integers, FiniteSets, Sequences, TLC

\* ---------------------------------------------------------------- bounds
MaxLen == 5
MaxU == 3
MaxS == 4
MaxCodecBits == 4
MaxThreads == 2

\* rrr.c:7
MAX_BLOCK_NBITS == 64

\* width of uint64_t, of int and of uint8_t
WordBits == 64
IntBits == 32
ByteBits == 8

Zero == {}
One == {0}
AllOnes == 0 .. (WordBits - 1)

Max(S) == CHOOSE x \in S : \A y \in S : y <= x
Min(S) == CHOOSE x \in S : \A y \in S : x <= y

Pow2(n) == 2 ^ n

\* a small non-negative integer as a 64-bit word
Word(n) == { i \in 0 .. 30 : (n \div Pow2(i)) % 2 = 1 }

\* the integer value of a word below 2^31
RECURSIVE Val(_)
Val(w) == IF w = {} THEN 0 ELSE LET b == Max(w) IN Pow2(b) + Val(w \ {b})

\* a + b modulo 2^64: bit i of the sum is a_i xor b_i xor the carry into i,
\* and the carry out of bit 63 is dropped
Carry(a, b, i) ==
    \E j \in a \cap b :
        j < i /\ \A k \in (j + 1) .. (i - 1) : k \in a \/ k \in b

Add(a, b) == { i \in 0 .. (WordBits - 1) : ((i \in a) # (i \in b)) # Carry(a, b, i) }

\* a - b modulo 2^64
Borrow(a, b, i) ==
    \E j \in b \ a :
        j < i /\ \A k \in (j + 1) .. (i - 1) : (k \in a) => (k \in b)

Sub(a, b) == { i \in 0 .. (WordBits - 1) : ((i \in a) # (i \in b)) # Borrow(a, b, i) }

\* unsigned comparison
Lt(a, b) ==
    LET d == (a \ b) \cup (b \ a)
    IN  d # {} /\ Max(d) \in b

Le(a, b) == a = b \/ Lt(a, b)

\* ------------------------------------------------------- bit twiddling
popcount(x) == Cardinality(x)

\* __builtin_clzll, called on non-zero words only
clz(x) == (WordBits - 1) - Max(x)

\* __builtin_ctzll, called on non-zero words only
ctz(x) == Min(x)

nbits(x) == IF Lt(x, Word(2)) THEN 0 ELSE WordBits - clz(Sub(x, One))

\* ------------------------------------------------------ binomial table
\* binomial[n] as the body of the outer loop leaves it; prev is binomial[n - 1].
\* Rows are sequences: entry k of a row is row[k + 1].
BinomialRow(n, prev) ==
    [ k \in 1 .. (n + 1) |->
        IF k = 1 \/ k = n + 1 THEN One
        ELSE Add(prev[k - 1], prev[k]) ] @@ << >>

\* the rows 0 .. n of the table, in the order the outer loop writes them
BinomialRows[n \in 0 .. MAX_BLOCK_NBITS] ==
    IF n = 0 THEN << BinomialRow(0, << >>) >>
    ELSE LET rows == BinomialRows[n - 1]
         IN  Append(rows, BinomialRow(n, rows[n]))

\* the table rrr_precompute_binomials leaves behind
BinomialTable == BinomialRows[MAX_BLOCK_NBITS]

\* binomial[n][k]
binomial_entry(n, k) == BinomialTable[n + 1][k + 1]

offset_nbits(block_nbits, class) == nbits(binomial_entry(block_nbits, class))

\* ---------------------------------------------------------- block codec
\* static uint64_t **binomial = NULL: the null handle, and the handle of the
\* table a lone caller allocates (with threads, the handle is the number of
\* the thread that allocated the array)
NULL == 0
TABLE == 1

\* a uint64_t holds bits 0 .. 63 only
IsWord(x) == x \subseteq AllOnes

\* the assertions rrr_encode_block opens with
EncodeAsserts(block_nbits, class, value) ==
    /\ block_nbits > 0
    /\ class <= block_nbits
    /\ class = popcount(value)

\* the for loop of rrr_encode_block: n is the bit inspected
\* the loop with class -- left out
RECURSIVE EncodeLoopKeepsClass(_, _, _, _)
EncodeLoopKeepsClass(value, class, n, offset) ==
    IF IsWord(offset) /\ class > 0 /\ n >= class
    THEN IF n \in value
         THEN EncodeLoopKeepsClass(value, class, n - 1, Add(offset, binomial_entry(n, class)))
         ELSE EncodeLoopKeepsClass(value, class, n - 1, offset)
    ELSE offset

RECURSIVE EncodeLoop(_, _, _, _)
EncodeLoop(value, class, n, offset) ==
    IF IsWord(offset) /\ class > 0 /\ n >= class
    THEN IF n \in value
         THEN EncodeLoop(value, class - 1, n - 1, Add(offset, binomial_entry(n, class)))
         ELSE EncodeLoop(value, class, n - 1, offset)
    ELSE offset

rrr_encode_block(block_nbits, class, value) ==
    IF class = 0 \/ class = block_nbits THEN Zero
    ELSE EncodeLoop(value, class,
                    IF value = Zero THEN 0 ELSE (WordBits - 1) - clz(value), Zero)

\* the assertions rrr_decode_block opens with
DecodeAsserts(block_nbits, class, offset) ==
    /\ block_nbits > 0
    /\ class <= block_nbits
    /\ Lt(offset, binomial_entry(block_nbits, class))

\* the for loop of rrr_decode_block: n is the bit generated.  class is
\* unsigned: a class below zero stands for one that wrapped around, which
\* compares above every n.
RECURSIVE DecodeLoop(_, _, _, _)
DecodeLoop(value, class, n, offset) ==
    IF IsWord(value) /\ class >= 0 /\ class <= n /\ n > 0
    THEN IF Le(binomial_entry(n, class), offset)
         THEN DecodeLoop(value \cup {n}, class - 1, n - 1,
                         Sub(offset, binomial_entry(n, class)))
         ELSE DecodeLoop(value, class, n - 1, offset)
    ELSE [value |-> value, class |-> class]

\* (1ULL << class) - 1.  A shift by 64 or more is undefined: the hardware
\* either masks the count to six bits or shifts everything out, and the
\* subtraction then gives the low (class mod 64) bits or all 64 bits.
LowMask(class) ==
    IF 0 <= class /\ class < WordBits THEN { 0 .. (class - 1) }
    ELSE { 0 .. ((class % WordBits) - 1), AllOnes }

\* the values a build can return from rrr_decode_block
rrr_decode_block(block_nbits, class, offset) ==
    LET r == DecodeLoop(Zero, class, block_nbits - 1, offset)
    IN  IF r.class # 0
        THEN { r.value \cup m : m \in LowMask(r.class) }
        ELSE { r.value }

\* ------------------------------------------------------------- state
VARIABLES
    binomial,      \* the global table handle: NULL, or the number of the allocating thread
    bits,          \* the source bit_vector_t handed to rrr_alloc
    block_nbits,   \* argument u of rrr_alloc, a uint8_t
    marker_nbits,  \* argument s of rrr_alloc, a uint8_t
    pc,            \* where the calling program is
    rrr,           \* the rrr_t under construction / returned
    local,         \* rrr_alloc's locals: k, class_at, offset_at, marker_at, marker_need
    query,         \* the last call made on the instance (or on the codec) and its result
    thr            \* per-thread position in rrr_precompute_binomials

vars == << binomial, bits, block_nbits, marker_nbits, pc, rrr, local, query, thr >>

\* ------------------------------------------------- bit_vector collaborator
\* a record that was allocated and never written
Unwritten == -1

\* bit_vector_alloc(nbits)
bit_vector_alloc(n) == [size |-> n, record_nbits |-> 0, data |-> {}]

\* bit_vector_alloc_record(record_nbits, nrecords)
bit_vector_alloc_record(w, n) ==
    [size |-> n, record_nbits |-> w, data |-> [i \in 0 .. (n - 1) |-> Unwritten]]

\* bit_vector_write(vec, at, width, value): the low width bits of value
bit_vector_write(vec, at, width, value) ==
    [vec EXCEPT !.data = (@ \ (at .. (at + width - 1)))
                          \cup { at + b : b \in { x \in value : x < width } }]

\* bit_vector_read(vec, at, width)
bit_vector_read(vec, at, width) ==
    { b \in 0 .. (width - 1) : (at + b) \in vec.data }

\* bit_vector_write_record(vec, index, value): value cut to the record width
bit_vector_write_record(vec, index, value) ==
    [vec EXCEPT !.data[index] = value % Pow2(vec.record_nbits)]

\* bit_vector_read_record(vec, index) on a record vector: the values the read
\* can give (any value of the record's width when it was never written)
bit_vector_read_record(vec, index) ==
    IF vec.data[index] = Unwritten
    THEN 0 .. (Pow2(vec.record_nbits) - 1)
    ELSE { vec.data[index] }

\* bit_vector_read_record(bits, k) on the source with record_nbits = u: the
\* u bits from k * u on, zero beyond the end
ReadBlock(vec, k) ==
    { b \in 0 .. (vec.record_nbits - 1) :
        (k * vec.record_nbits + b) \in vec.data /\ k * vec.record_nbits + b < vec.size }

\* bit_vector_resize(vec, nbits)
bit_vector_resize(vec, n) ==
    [vec EXCEPT !.size = n, !.data = { b \in @ : b < n }]

\* ------------------------------------------------------------ rrr_alloc
NoInstance == [size |-> 0]
NoLocal == [k |-> 0]
NoQuery == [op |-> "none"]
NoThreads == << >>

\* lines 233-235
AllocAsserts ==
    /\ bits.size > 0
    /\ block_nbits <= MAX_BLOCK_NBITS
    /\ block_nbits <= marker_nbits

\* x / d as the machine divides: a zero divisor is undefined and either
\* traps or gives 0
Trap == -1

Quotients(x, d) == IF d = 0 THEN { Trap, 0 } ELSE { x \div d }

\* lines 240-269: the header and the four vectors, given the two quotients
AllocInstance(nblocks, nmarkers) ==
    LET offset_nbits_max == offset_nbits(block_nbits, block_nbits \div 2)
        offsets == bit_vector_alloc(nblocks * offset_nbits_max)
    IN  [ size           |-> bits.size,
          rank           |-> 0,
          nblocks        |-> nblocks,
          nmarkers       |-> nmarkers,
          block_nbits    |-> block_nbits,
          marker_nbits   |-> marker_nbits,
          classes        |-> bit_vector_alloc_record(nbits(Word(block_nbits + 1)), nblocks),
          offsets        |-> offsets,
          marked_ranks   |-> bit_vector_alloc_record(nbits(Word(bits.size + 1)), nmarkers),
          marked_offsets |-> bit_vector_alloc_record(nbits(Word(offsets.size)), nmarkers) ]

\* lines 233-273: the call up to the first test of the loop
AllocCall ==
    /\ pc = "call"
    /\ UNCHANGED << block_nbits, marker_nbits, query, thr >>
    /\ IF ~AllocAsserts
       THEN /\ pc' = "abort"
            /\ UNCHANGED << binomial, bits, rrr, local >>
       ELSE /\ binomial' = TABLE
            /\ \E nb \in Quotients(bits.size + block_nbits - 1, block_nbits),
                  nm \in Quotients(bits.size + marker_nbits - 1, marker_nbits) :
                 IF nb = Trap \/ nm = Trap
                 THEN /\ pc' = "sigfpe"
                      /\ UNCHANGED << bits, rrr, local >>
                 ELSE /\ pc' = "loop"
                      /\ rrr' = AllocInstance(nb, nm)
                      /\ local' = [ k |-> 0, class_at |-> 0, offset_at |-> 0,
                                    marker_at |-> 0, marker_need |-> marker_nbits,
                                    orig_record_nbits |-> bits.record_nbits ]
                      /\ bits' = [bits EXCEPT !.record_nbits = block_nbits]

\* the marker part with the test of line 287 made strict (marker_extra > 0)
WriteMarkerStrict(r, l, block, offset_at) ==
    LET marker_extra == block_nbits - l.marker_need
        want == block_nbits - marker_extra
        prefix == IF want >= 64 THEN block ELSE block \cap (0 .. (want - 1))
    IN  IF marker_extra > 0
        THEN [ marked_offsets |-> bit_vector_write_record(r.marked_offsets, l.marker_at, offset_at),
               marked_ranks   |-> bit_vector_write_record(r.marked_ranks, l.marker_at,
                                                          r.rank + popcount(prefix)),
               marker_at      |-> l.marker_at + 1,
               marker_need    |-> marker_nbits - marker_extra ]
        ELSE [ marked_offsets |-> r.marked_offsets,
               marked_ranks   |-> r.marked_ranks,
               marker_at      |-> l.marker_at,
               marker_need    |-> l.marker_need - block_nbits ]

\* lines 285-301: the marker part of one iteration, as the new
\* [marked_offsets, marked_ranks, marker_at, marker_need]
WriteMarker(r, l, block, offset_at) ==
    LET marker_extra == block_nbits - l.marker_need
        want == block_nbits - marker_extra
        prefix == IF want >= 64 THEN block ELSE block \cap (0 .. (want - 1))
    IN  IF marker_extra >= 0
        THEN [ marked_offsets |-> bit_vector_write_record(r.marked_offsets, l.marker_at, offset_at),
               marked_ranks   |-> bit_vector_write_record(r.marked_ranks, l.marker_at,
                                                          r.rank + popcount(prefix)),
               marker_at      |-> l.marker_at + 1,
               marker_need    |-> marker_nbits - marker_extra ]
        ELSE [ marked_offsets |-> r.marked_offsets,
               marked_ranks   |-> r.marked_ranks,
               marker_at      |-> l.marker_at,
               marker_need    |-> l.marker_need - block_nbits ]

\* lines 274-304: one iteration of the block loop
AllocBlock ==
    /\ pc = "loop"
    /\ local.k < rrr.nblocks
    /\ UNCHANGED << binomial, bits, block_nbits, marker_nbits, query, thr >>
    /\ LET block == ReadBlock(bits, local.k)
           class == popcount(block)
           offset == rrr_encode_block(block_nbits, class, block)
           width == offset_nbits(block_nbits, class)
           offset_at == local.offset_at + width
           m == WriteMarker(rrr, local, block, offset_at)
       IN  IF ~EncodeAsserts(block_nbits, class, block)
           THEN pc' = "abort" /\ UNCHANGED << rrr, local >>
           ELSE IF offset_at > rrr.offsets.size
                   \/ (block_nbits - local.marker_need >= 0 /\ local.marker_at >= rrr.nmarkers)
           THEN pc' = "oob_write" /\ UNCHANGED << rrr, local >>
           ELSE /\ pc' = "loop"
                /\ rrr' = [rrr EXCEPT
                      !.classes = bit_vector_write_record(@, local.class_at, class),
                      !.offsets = bit_vector_write(@, local.offset_at, width, offset),
                      !.marked_offsets = m.marked_offsets,
                      !.marked_ranks = m.marked_ranks,
                      !.rank = @ + class]
                /\ local' = [local EXCEPT
                      !.k = @ + 1,
                      !.class_at = @ + 1,
                      !.offset_at = offset_at,
                      !.marker_at = m.marker_at,
                      !.marker_need = m.marker_need]

\* the return without the resize of line 309
AllocReturnKeepsSize ==
    /\ pc = "loop"
    /\ local.k >= rrr.nblocks
    /\ pc' = "ready"
    /\ bits' = [bits EXCEPT !.record_nbits = local.orig_record_nbits]
    /\ UNCHANGED << binomial, block_nbits, marker_nbits, rrr, local, query, thr >>

\* lines 306-311: the loop is over
AllocReturn ==
    /\ pc = "loop"
    /\ local.k >= rrr.nblocks
    /\ pc' = "ready"
    /\ bits' = [bits EXCEPT !.record_nbits = local.orig_record_nbits]
    /\ rrr' = [rrr EXCEPT !.offsets = bit_vector_resize(@, local.offset_at)]
    /\ UNCHANGED << binomial, block_nbits, marker_nbits, local, query, thr >>

\* -------------------------------------------------------------- queries
\* How a call ends: fault "none" and the value returned, or "abort" (an
\* assertion failed), "oob" (a vector was read outside its bounds) or
\* "uninit" (a local was read before it was set); after "oob" and "uninit"
\* the behaviour is undefined and ret carries no meaning.
Returns(v) == [fault |-> "none", ret |-> v]
Fault(f) == [fault |-> f, ret |-> 0]

\* lines 342-345 (and 389-392): class, width, offset and block at class_at
DecodeAt(r, class_at, offset_at) ==
    IF class_at >= r.nblocks THEN { Fault("oob") }
    ELSE UNION {
        LET width == offset_nbits(r.block_nbits, class)
            offset == bit_vector_read(r.offsets, offset_at, width)
        IN  IF width > 0 /\ offset_at + width > r.offsets.size THEN { Fault("oob") }
            ELSE IF ~DecodeAsserts(r.block_nbits, class, offset) THEN { Fault("abort") }
            ELSE { [fault |-> "none", block |-> b]
                     : b \in rrr_decode_block(r.block_nbits, class, offset) }
        : class \in bit_vector_read_record(r.classes, class_at) }

\* 1 << i with int operands, converted to uint64_t for the &.  i <= 30 is
\* defined.  From i = 31 on the shift is undefined (it overflows int, or the
\* count reaches the width of int): the machine masks the count to five bits
\* and the conversion sign-extends, or the compiler shifts in 64 bits.
IntShift1(i) ==
    IF i < IntBits - 1 THEN { {i} }
    ELSE { IF i % IntBits = IntBits - 1 THEN (IntBits - 1) .. (WordBits - 1)
                                        ELSE { i % IntBits },
           {i} }

\* (uint8_t) (x >> i)
ShiftRightByte(x, i) == Val({ b - i : b \in { y \in x : y >= i /\ y - i < ByteBits } })

\* lines 333-340: the block scan of rrr_access
RECURSIVE AccessScan(_, _, _, _)
AccessScan(r, i, class_at, offset_at) ==
    IF i >= r.block_nbits
    THEN IF class_at >= r.nblocks THEN [fault |-> "oob"]
         ELSE AccessScan(r, i - r.block_nbits, class_at + 1,
                offset_at + offset_nbits(r.block_nbits, r.classes.data[class_at]))
    ELSE [fault |-> "none", i |-> i, class_at |-> class_at, offset_at |-> offset_at]

\* lines 342-347, from the marker's position
AccessFrom(r, i, class_at, offset_at) ==
    LET at == AccessScan(r, i - class_at * r.block_nbits, class_at, offset_at)
    IN  IF at.fault # "none" THEN { Fault(at.fault) }
        ELSE UNION {
            IF d.fault # "none" THEN { Fault(d.fault) }
            ELSE { Returns(ShiftRightByte(d.block \cap mask, at.i)) : mask \in IntShift1(at.i) }
            : d \in DecodeAt(r, at.class_at, at.offset_at) }

\* rrr_access(rrr, i): every way the call can end
rrr_access(r, i) ==
    LET marker_at == i \div r.marker_nbits
    IN  IF ~(i < r.size) THEN { Fault("abort") }
        ELSE IF marker_at <= 0 THEN AccessFrom(r, i, 0, 0)
        ELSE UNION {
            AccessFrom(r, i, (marker_at * r.marker_nbits) \div r.block_nbits, offset_at)
            : offset_at \in bit_vector_read_record(r.marked_offsets, marker_at - 1) }

\* lines 378-387: the block scan of rrr_rank1
RECURSIVE Rank1Scan(_, _, _, _, _)
Rank1Scan(r, i, class_at, offset_at, rank) ==
    IF i >= r.block_nbits
    THEN IF class_at >= r.nblocks THEN [fault |-> "oob"]
         ELSE Rank1Scan(r, i - r.block_nbits, class_at + 1,
                offset_at + offset_nbits(r.block_nbits, r.classes.data[class_at]),
                rank + r.classes.data[class_at])
    ELSE [fault |-> "none", i |-> i, class_at |-> class_at, offset_at |-> offset_at,
          rank |-> rank]

\* lines 389-395, from the marker's position
Rank1From(r, i, class_at, offset_at, rank) ==
    LET at == Rank1Scan(r, i - class_at * r.block_nbits, class_at, offset_at, rank)
    IN  IF at.fault # "none" THEN { Fault(at.fault) }
        ELSE UNION {
            IF d.fault # "none" THEN { Fault(d.fault) }
            ELSE { Returns(at.rank + popcount(d.block \cap mask)) : mask \in LowMask(at.i) }
            : d \in DecodeAt(r, at.class_at, at.offset_at) }

\* rrr_rank1(rrr, i): every way the call can end
rrr_rank1(r, i) ==
    LET marker_at == i \div r.marker_nbits
    IN  IF i >= r.size THEN { Returns(r.rank) }
        ELSE IF marker_at <= 0 THEN Rank1From(r, i, 0, 0, 0)
        ELSE UNION {
            Rank1From(r, i, (marker_at * r.marker_nbits) \div r.block_nbits, offset_at, rank)
            : offset_at \in bit_vector_read_record(r.marked_offsets, marker_at - 1),
              rank \in bit_vector_read_record(r.marked_ranks, marker_at - 1) }

\* rrr_rank0(rrr, i)
rrr_rank0(r, i) ==
    { IF o.fault = "none" THEN Returns(i - o.ret) ELSE o : o \in rrr_rank1(r, i) }

\* A uint64_t of rrr_find_marker: [wrapped |-> w, n |-> n] stands for
\* w * 2^63 + n, with n small.  Small(n) is n itself.
Small(n) == [wrapped |-> 0, n |-> n]

\* lines 416-426: the binary search.  ranks is marked_ranks as the reads
\* find it; k_ is _k, with -1 as the source writes it; rank is the last
\* record read.  Ends with how the loop was left.
RECURSIVE FindMarkerLoop(_, _, _, _, _, _)
FindMarkerLoop(ranks, j, lo, hi, k_, rank) ==
    LET k == lo + (hi - lo) \div 2
    IN  IF ~(lo <= hi)
        \* hi = lo - 1: (hi - lo) / 2 is (2^64 - 1) / 2 = 2^63 - 1
        THEN [left |-> "cond", k |-> [wrapped |-> 1, n |-> lo - 1], k_ |-> k_, rank |-> rank]
        ELSE IF ranks[k] < j
             THEN FindMarkerLoop(ranks, j, k + 1, hi, k, ranks[k])
        ELSE IF j < ranks[k]
             THEN IF k = 0
                  \* hi = k - 1 wraps to 2^64 - 1 and the next k is out of bounds
                  THEN [left |-> "oob", k |-> Small(k), k_ |-> k_, rank |-> ranks[k]]
                  ELSE FindMarkerLoop(ranks, j, lo, k - 1, k_, ranks[k])
        ELSE [left |-> "break", k |-> Small(k), k_ |-> k_, rank |-> ranks[k]]

\* lines 428-431, after the loop: k + 1 modulo 2^64
FindMarkerResult(l, j) ==
    IF l.left = "oob" THEN [fault |-> "oob"]
    ELSE IF j <= l.rank THEN [fault |-> "none", marker_at |-> Small(l.k_ + 1)]
    ELSE [fault |-> "none", marker_at |-> [l.k EXCEPT !.n = @ + 1]]

\* marked_ranks as reads can find it: a record never written reads as any
\* value of its width
MarkedRanksRead(r) ==
    LET unwritten == { m \in 0 .. (r.nmarkers - 1) : r.marked_ranks.data[m] = Unwritten }
    IN  { [ m \in 0 .. (r.nmarkers - 1) |->
              IF m \in unwritten THEN g[m] ELSE r.marked_ranks.data[m] ]
          : g \in [unwritten -> 0 .. (Pow2(r.marked_ranks.record_nbits) - 1)] }

\* lines 412-431 on an instance of more than one period, given what the
\* reads of marked_ranks find
FindMarkerOn(r, ranks, j) ==
    IF j < ranks[0] THEN [fault |-> "none", marker_at |-> Small(0)]
    ELSE FindMarkerResult(FindMarkerLoop(ranks, j, 0, r.nmarkers - 1, -1, 0), j)

\* rrr_find_marker(rrr, j): every way the call can end
rrr_find_marker(r, j) ==
    IF ~(j <= r.rank) THEN { [fault |-> "abort"] }
    ELSE IF r.size <= r.marker_nbits THEN { [fault |-> "none", marker_at |-> Small(0)] }
    ELSE { FindMarkerOn(r, ranks, j) : ranks \in MarkedRanksRead(r) }

\* lines 455-464: the scan for the block that holds the j-th 1-bit
RECURSIVE Select1Scan(_, _, _, _, _, _)
Select1Scan(r, j, class_at, offset_at, rank, last) ==
    IF class_at < r.nblocks
    THEN LET class == r.classes.data[class_at]
             width == offset_nbits(r.block_nbits, class)
         IN  IF rank + class >= j
             THEN [class_at |-> class_at, offset_at |-> offset_at, rank |-> rank,
                   class |-> class, width |-> width]
             ELSE Select1Scan(r, j, class_at + 1, offset_at + width, rank + class,
                              [class |-> class, width |-> width])
    ELSE [class_at |-> class_at, offset_at |-> offset_at, rank |-> rank,
          class |-> last.class, width |-> last.width]

\* lines 473-476: clear the lowest 1-bit until rank reaches j; i is the
\* position of the last one cleared, -1 when none was
RECURSIVE Select1Bit(_, _, _, _)
Select1Bit(block, rank, j, i) ==
    IF rank < j
    THEN Select1Bit(block \ {ctz(block)}, rank + 1, j, ctz(block))
    ELSE i

\* lines 467-478, from the block the scan stopped at
Select1Block(r, j, at) ==
    IF at.class = Unwritten THEN { Fault("uninit") }
    ELSE LET offset == bit_vector_read(r.offsets, at.offset_at, at.width)
         IN  IF at.width > 0 /\ at.offset_at + at.width > r.offsets.size
             THEN { Fault("oob") }
             ELSE IF ~DecodeAsserts(r.block_nbits, at.class, offset) THEN { Fault("abort") }
             ELSE { IF ~(at.rank <= j /\ j - at.rank <= popcount(block))
                    THEN Fault("abort")
                    ELSE Returns(1 + Select1Bit(block, at.rank, j, -1)
                                   + at.class_at * r.block_nbits)
                    : block \in rrr_decode_block(r.block_nbits, at.class, offset) }

\* lines 443-464, from the marker found
Select1From(r, j, marker_at) ==
    LET class_at == (marker_at * r.marker_nbits) \div r.block_nbits
        none == [class |-> Unwritten, width |-> Unwritten]
    IN  IF marker_at <= 0
        THEN Select1Block(r, j, Select1Scan(r, j, class_at, 0, 0, none))
        ELSE IF marker_at - 1 >= r.nmarkers THEN { Fault("oob") }
        ELSE UNION {
            Select1Block(r, j, Select1Scan(r, j, class_at, offset_at, rank, none))
            : offset_at \in bit_vector_read_record(r.marked_offsets, marker_at - 1),
              rank \in bit_vector_read_record(r.marked_ranks, marker_at - 1) }

\* rrr_select1 with the test of j against the rank left out
rrr_select1_unguarded(r, j) ==
    UNION {
        IF m.fault # "none" THEN { Fault(m.fault) }
        ELSE IF m.marker_at.wrapped # 0 THEN { Fault("oob") }
        ELSE Select1From(r, j, m.marker_at.n)
        : m \in rrr_find_marker(r, j) }

\* rrr_select1(rrr, j): every way the call can end
rrr_select1(r, j) ==
    IF j > r.rank THEN { Returns(0) }
    ELSE UNION {
        IF m.fault # "none" THEN { Fault(m.fault) }
        \* marker_at - 1 is at least 2^63 - 1: no vector is that long
        ELSE IF m.marker_at.wrapped # 0 THEN { Fault("oob") }
        ELSE Select1From(r, j, m.marker_at.n)
        : m \in rrr_find_marker(r, j) }

\* rrr_select0(rrr, i)
rrr_select0(r, i) == { Returns(0) }

\* ---------------------------------------------------- calls on an instance
\* rrr_alloc returned an instance and the call before it had no undefined
\* behaviour (a division by zero that did not trap)
Ready == pc = "ready" /\ rrr.block_nbits > 0 /\ rrr.marker_nbits > 0

\* the caller is sequential: one call at a time
Call(op, arg, outcomes) ==
    /\ Ready
    /\ query = NoQuery
    /\ \E o \in outcomes : query' = [op |-> op, arg |-> arg, ret |-> o.ret, fault |-> o.fault]
    /\ UNCHANGED << binomial, bits, block_nbits, marker_nbits, pc, rrr, local, thr >>

\* the arguments tried: all of them on a short vector; on a long one the
\* first few, those next to a multiple of the width of int, and the last
Probes(n) ==
    { i \in 0 .. (n + 1) :
        i <= MaxLen + 1 \/ i >= n - 1 \/ i % IntBits = 0 \/ i % IntBits = IntBits - 1 }

Access == \E i \in Probes(bits.size) \cap (0 .. (bits.size - 1)) :
    Call("access", i, rrr_access(rrr, i))

Rank1 == \E i \in Probes(bits.size) : Call("rank1", i, rrr_rank1(rrr, i))

Rank0 == \E i \in Probes(bits.size) : Call("rank0", i, rrr_rank0(rrr, i))

Select1 == \E j \in Probes(bits.size) : Call("select1", j, rrr_select1(rrr, j))

Select0 == \E j \in 0 .. 1 : Call("select0", j, rrr_select0(rrr, j))

\* the call returns to the caller, which may call again
Return ==
    /\ Ready
    /\ query # NoQuery
    /\ query' = NoQuery
    /\ UNCHANGED << binomial, bits, block_nbits, marker_nbits, pc, rrr, local, thr >>

\* ------------------------------------------------------- specification
\* the source vectors: every bit string of up to MaxLen bits, and a few of
\* one or two blocks of the widest widths
BitVector(n, ones) == [size |-> n, record_nbits |-> 1, data |-> ones]

ShortBits == UNION { { BitVector(n, d) : d \in SUBSET (0 .. (n - 1)) } : n \in 0 .. MaxLen }

WideWidths == { IntBits, MAX_BLOCK_NBITS }

WideBitsOf(w) ==
    UNION { { BitVector(n, d) : d \in { {}, 0 .. (n - 1), {w - 1}, 1 .. (n - 1) } }
            : n \in { w, w + 1 } }

WideBits == UNION { WideBitsOf(w) : w \in WideWidths }

Init ==
    /\ pc = "call"
    /\ binomial = NULL
    /\ rrr = NoInstance
    /\ local = NoLocal
    /\ query = NoQuery
    /\ thr = NoThreads
    /\ \/ /\ bits \in ShortBits
          /\ block_nbits \in 0 .. MaxU
          /\ marker_nbits \in 0 .. MaxS
       \/ /\ bits \in WideBits
          /\ block_nbits \in WideWidths \cup { MAX_BLOCK_NBITS + 1 }
          /\ marker_nbits \in WideWidths \cup { MAX_BLOCK_NBITS + 1 }

Next ==
    \/ AllocCall
    \/ AllocBlock
    \/ AllocReturn
    \/ Access
    \/ Rank1
    \/ Rank0
    \/ Select1
    \/ Select0
    \/ Return

Spec == Init /\ [][Next]_vars

\* ------------------------------------------------- the codec on its own
\* the blocks tried: every value of a narrow block, and for a wide block
\* the extremes of a few classes
CodecValues(u) ==
    IF u <= MaxCodecBits THEN SUBSET (0 .. (u - 1))
    ELSE { {}, 0 .. (u - 1), {0}, {u - 1}, 0 .. (u - 2), 1 .. (u - 1),
           { b \in 0 .. (u - 1) : b % 2 = 0 }, { b \in 0 .. (u - 1) : b % 2 = 1 } }

CodecInit ==
    /\ pc = "codec"
    /\ binomial = TABLE
    /\ bits = BitVector(0, {})
    /\ marker_nbits = 0
    /\ rrr = NoInstance
    /\ local = NoQuery
    /\ query = NoQuery
    /\ thr = NoThreads
    /\ block_nbits \in (1 .. MaxCodecBits) \cup WideWidths

\* rrr_encode_block(block_nbits, popcount(v), v); local keeps the call before
EncodeBlock ==
    /\ pc = "codec"
    /\ \E v \in CodecValues(block_nbits) :
         IF ~(binomial # NULL /\ EncodeAsserts(block_nbits, popcount(v), v))
         THEN pc' = "abort" /\ UNCHANGED << query, local >>
         ELSE /\ query' = [ op |-> "encode", class |-> popcount(v), value |-> v,
                            offset |-> rrr_encode_block(block_nbits, popcount(v), v),
                            decoded |-> Zero ]
              /\ local' = query
              /\ pc' = pc
    /\ UNCHANGED << binomial, bits, block_nbits, marker_nbits, rrr, thr >>

\* rrr_decode_block(block_nbits, class, offset) on what the last encode gave
DecodeBlock ==
    /\ pc = "codec"
    /\ query.op = "encode"
    /\ IF ~(binomial # NULL /\ DecodeAsserts(block_nbits, query.class, query.offset))
       THEN pc' = "abort" /\ UNCHANGED query
       ELSE /\ \E d \in rrr_decode_block(block_nbits, query.class, query.offset) :
                 query' = [query EXCEPT !.op = "decode", !.decoded = d]
            /\ pc' = pc
    /\ UNCHANGED << binomial, bits, block_nbits, marker_nbits, rrr, local, thr >>

CodecNext ==
    \/ EncodeBlock
    \/ DecodeBlock

SpecCodec == CodecInit /\ [][CodecNext]_vars

\* ------------------------------------- concurrent first constructions
\* Each thread calls rrr_alloc once.  thr[t] holds the thread's position in
\* rrr_precompute_binomials (pc, n), the rows of the array it allocated at
\* line 102 (rows), and a record of what happened to it: what its test of
\* the handle saw, whether the table was whole at that moment (intact),
\* whether it wrote into a table (wrote), whether its call shared any
\* moment with another call (raced), and whether a construction had
\* already completed when it entered (late).
Threads == 1 .. MaxThreads

NoRows == [n \in 0 .. MAX_BLOCK_NBITS |-> "unset"]

Whole(rows) == \A n \in 0 .. MAX_BLOCK_NBITS : rows[n] = "full"

Inside(t) == thr[t].pc \notin { "idle", "done" }

\* a test that always takes the initializer's branch
IsNullAlways(handle) == TRUE

\* binomial == NULL
IsNull(handle) == handle = NULL

ThreadInit ==
    /\ pc = "threads"
    /\ binomial = NULL
    /\ bits = BitVector(1, {})
    /\ marker_nbits = MAX_BLOCK_NBITS
    /\ block_nbits = MAX_BLOCK_NBITS
    /\ rrr = NoInstance
    /\ local = NoLocal
    /\ query = NoQuery
    /\ thr = [t \in Threads |->
                [pc |-> "idle", n |-> 0, rows |-> NoRows, saw |-> "none",
                 intact |-> FALSE, wrote |-> FALSE, raced |-> FALSE, late |-> FALSE]]

\* rrr_alloc is entered and reaches its call of rrr_precompute_binomials
Enter(t) ==
    /\ thr[t].pc = "idle"
    /\ LET others == { o \in Threads \ {t} : Inside(o) }
       IN  thr' = [o \in Threads |->
                     IF o = t
                     THEN [thr[t] EXCEPT !.pc = "test",
                                         !.raced = others # {},
                                         !.late = \E d \in Threads : thr[d].pc = "done"]
                     ELSE IF o \in others THEN [thr[o] EXCEPT !.raced = TRUE]
                     ELSE thr[o]]
    /\ UNCHANGED << binomial, bits, block_nbits, marker_nbits, pc, rrr, local, query >>

\* if (binomial == NULL)
TestNull(t) ==
    /\ thr[t].pc = "test"
    /\ thr' = [thr EXCEPT ![t].pc = IF IsNull(binomial) THEN "alloc" ELSE "use",
                          ![t].saw = IF binomial = NULL THEN "null" ELSE "table",
                          ![t].intact = binomial # NULL /\ Whole(thr[binomial].rows)]
    /\ UNCHANGED << binomial, bits, block_nbits, marker_nbits, pc, rrr, local, query >>

\* binomial = ALLOC_N(uint64_t*, MAX_BLOCK_NBITS + 1): the handle is stored
\* before any row exists.  The array the handle pointed to before is leaked:
\* nothing reaches it any more, so its rows are forgotten.
AllocTable(t) ==
    /\ thr[t].pc = "alloc"
    /\ binomial' = t
    /\ thr' = [o \in Threads |->
                 IF o = t THEN [thr[t] EXCEPT !.pc = "row", !.n = 0, !.rows = NoRows]
                 ELSE IF o = binomial THEN [thr[o] EXCEPT !.rows = NoRows]
                 ELSE thr[o]]
    /\ UNCHANGED << bits, block_nbits, marker_nbits, pc, rrr, local, query >>

\* one turn of the outer loop: binomial[n] = ALLOC_N(...); binomial[n][0] =
\* 1; binomial[n][n] = 1; and the inner loop binomial[n][k] =
\* binomial[n-1][k-1] + binomial[n-1][k], all through the handle as it is
\* now.  Rows 0 and 1 have no inner entry.  A previous row that is not
\* filled in that array is memory nobody wrote: the row is left with its
\* edges only and the thread has read garbage.
FillRow(t) ==
    /\ thr[t].pc = "row"
    /\ LET n == thr[t].n
           rows == thr[binomial].rows
       IN  IF n >= 2 /\ rows[n - 1] # "full"
           THEN thr' = [[thr EXCEPT ![binomial].rows[n] = "edges"]
                           EXCEPT ![t].pc = "ub", ![t].n = 0, ![t].wrote = TRUE]
           ELSE thr' = [[thr EXCEPT ![binomial].rows[n] = "full"]
                           EXCEPT ![t].pc = IF n = MAX_BLOCK_NBITS THEN "use" ELSE "row",
                                  ![t].n = IF n = MAX_BLOCK_NBITS THEN 0 ELSE n + 1,
                                  ![t].wrote = TRUE]
    /\ UNCHANGED << binomial, bits, block_nbits, marker_nbits, pc, rrr, local, query >>

\* back in rrr_alloc: offset_nbits(block_nbits, block_nbits / 2) reads
\* binomial[block_nbits][block_nbits / 2]
UseTable(t) ==
    /\ thr[t].pc = "use"
    /\ thr' = [thr EXCEPT ![t].pc = IF thr[binomial].rows[block_nbits] = "full"
                                    THEN "done" ELSE "ub"]
    /\ UNCHANGED << binomial, bits, block_nbits, marker_nbits, pc, rrr, local, query >>

ThreadNext ==
    \E t \in Threads :
        \/ Enter(t)
        \/ TestNull(t)
        \/ AllocTable(t)
        \/ FillRow(t)
        \/ UseTable(t)

SpecThreads == ThreadInit /\ [][ThreadNext]_vars

\* ------------------------------------- the table filled entry by entry
\* rrr_precompute_binomials one statement at a time, in a single thread.
MaxCalls == 2

\* the frame of rrr_precompute_binomials and the heap it has written: row n
\* of the table is rows[n + 1], a function on the entries written so far
NoTable == << >>

TableFrame ==
    [calls |-> 1, n |-> 0, k |-> 0, rows |-> NoTable,
     unwritten |-> FALSE, wrapped |-> FALSE]

\* the uint64_t addition of line 111, as a 32-bit table would make it
binomial_sum32(a, b) == { i \in Add(a, b) : i < IntBits }

\* line 111: binomial[n - 1][k - 1] + binomial[n - 1][k] in uint64_t
binomial_sum(a, b) == Add(a, b)

TableInit ==
    /\ pc = "enter"
    /\ binomial = NULL
    /\ bits = BitVector(1, {})
    /\ marker_nbits = MAX_BLOCK_NBITS
    /\ block_nbits = MAX_BLOCK_NBITS
    /\ rrr = NoInstance
    /\ query = NoQuery
    /\ thr = NoThreads
    /\ local = TableFrame

\* line 101: if (binomial == NULL)
TableTest ==
    /\ pc = "enter"
    /\ pc' = IF binomial = NULL THEN "alloc" ELSE "return"
    /\ UNCHANGED << binomial, bits, block_nbits, marker_nbits, rrr, local, query, thr >>

\* line 102: the handle is stored; line 105: n = 0
TableAlloc ==
    /\ pc = "alloc"
    /\ binomial' = TABLE
    /\ local' = [local EXCEPT !.n = 0, !.rows = NoTable]
    /\ pc' = "row"
    /\ UNCHANGED << bits, block_nbits, marker_nbits, rrr, query, thr >>

\* lines 105-108: the loop test, the row of n + 1 unwritten entries and its
\* two ends; line 110: k = 1
TableRow ==
    /\ pc = "row"
    /\ IF local.n <= MAX_BLOCK_NBITS
       THEN /\ local' = [local EXCEPT
                            !.rows = Append(@, [i \in { 0, local.n } |-> One]),
                            !.k = 1]
            /\ pc' = "entry"
       ELSE /\ pc' = "return"
            /\ UNCHANGED local
    /\ UNCHANGED << binomial, bits, block_nbits, marker_nbits, rrr, query, thr >>

\* lines 110-111: the inner loop test and one entry; on its exit n ++ in
\* uint8_t. Reading an entry that was never written is undefined behaviour.
TableEntry ==
    /\ pc = "entry"
    /\ IF local.k < local.n
       THEN LET prev == local.rows[local.n]
                row  == local.rows[local.n + 1]
            IN  IF { local.k - 1, local.k } \subseteq DOMAIN prev
                THEN LET a == prev[local.k - 1]
                         b == prev[local.k]
                         v == binomial_sum(a, b)
                     IN  /\ local' = [local EXCEPT
                                !.rows[local.n + 1] =
                                    [i \in (DOMAIN row) \cup { local.k } |->
                                        IF i = local.k THEN v ELSE row[i]],
                                !.wrapped = @ \/ Carry(a, b, WordBits),
                                !.k = (local.k + 1) % Pow2(ByteBits)]
                         /\ pc' = "entry"
                ELSE /\ local' = [local EXCEPT !.unwritten = TRUE]
                     /\ pc' = "ub"
       ELSE /\ local' = [local EXCEPT !.n = (local.n + 1) % Pow2(ByteBits)]
            /\ pc' = "row"
    /\ UNCHANGED << binomial, bits, block_nbits, marker_nbits, rrr, query, thr >>

\* rrr_alloc line 238 calls again on a later construction
TableAgain ==
    /\ pc = "return"
    /\ local.calls < MaxCalls
    /\ local' = [local EXCEPT !.calls = @ + 1]
    /\ pc' = "enter"
    /\ UNCHANGED << binomial, bits, block_nbits, marker_nbits, rrr, query, thr >>

TableNext ==
    \/ TableTest
    \/ TableAlloc
    \/ TableRow
    \/ TableEntry
    \/ TableAgain

SpecTable == TableInit /\ [][TableNext]_vars

\* =============================================================== claims
\* What the source vector says, computed from B alone.
\* B[i]
SourceBit(i) == IF i \in bits.data THEN 1 ELSE 0

\* the number of 1-bits in B[0 .. i)
PrefixOnes(i) == Cardinality({ p \in bits.data : p < i })

\* the classes of blocks 0 .. k-1 added up
RECURSIVE ClassesBefore(_, _)
ClassesBefore(r, k) ==
    IF k = 0 THEN 0 ELSE ClassesBefore(r, k - 1) + r.classes.data[k - 1]

\* the offset widths of blocks 0 .. k-1 added up
RECURSIVE WidthsBefore(_, _)
WidthsBefore(r, k) ==
    IF k = 0 THEN 0
    ELSE WidthsBefore(r, k - 1) + offset_nbits(r.block_nbits, r.classes.data[k - 1])

\* the arguments the constructor's contract allows
ValidArguments ==
    /\ block_nbits \in 1 .. MAX_BLOCK_NBITS
    /\ marker_nbits >= block_nbits
    /\ bits.size > 0

\* C1 -- access agreement: on an instance built from a non-empty B with
\* 1 <= u <= 64 and s >= u, rrr_access(i) returns B[i], which is 0 or 1,
\* for every i in [0, |B|).
C1_AccessAgreement ==
    (Ready /\ query.op = "access") =>
        /\ query.fault = "none"
        /\ query.ret = SourceBit(query.arg)
        /\ query.ret \in { 0, 1 }

\* C2 -- rank agreement: for every i in [0, |B|], rrr_rank1(i) is the number
\* of 1-bits in B[0 .. i) and rrr_rank0(i) is i minus that; the stored rank
\* is rrr_rank1(|B|) and is the sum of all block classes.
C2_RankAgreement ==
    /\ (Ready /\ query.op = "rank1" /\ query.arg <= bits.size) =>
           (query.fault = "none" /\ query.ret = PrefixOnes(query.arg))
    /\ (Ready /\ query.op = "rank0" /\ query.arg <= bits.size) =>
           (query.fault = "none" /\ query.ret = query.arg - PrefixOnes(query.arg))
    /\ Ready =>
           (rrr.rank = PrefixOnes(bits.size) /\ rrr.rank = ClassesBefore(rrr, rrr.nblocks))

\* C3 -- rank/select inverse: for every j in [1, rank], p = rrr_select1(j)
\* has 1 <= p <= |B|, B[p-1] = 1, rrr_rank1(p) = j and rrr_rank1(p-1) = j-1.
C3_RankSelectInverse ==
    (Ready /\ query.op = "select1" /\ query.arg \in 1 .. rrr.rank) =>
        /\ query.fault = "none"
        /\ query.ret \in 1 .. bits.size
        /\ SourceBit(query.ret - 1) = 1
        /\ PrefixOnes(query.ret) = query.arg
        /\ rrr_rank1(rrr, query.ret) = { Returns(query.arg) }
        /\ rrr_rank1(rrr, query.ret - 1) = { Returns(query.arg - 1) }

\* C4 -- codec round trip: for every u in [1, 64], c in [0, u] and u-bit v
\* with popcount(v) = c, decoding the offset that encoding v gave returns
\* v, the classes c = 0 and c = u included.
C4_CodecRoundTrip ==
    query.op = "decode" => query.decoded = query.value

\* C5 -- encode maps a class into its range and keeps the order: the offset
\* of v is below C(u, c), it is 0 when c = 0 or c = u, v1 < v2 in one class
\* gives offset(v1) < offset(v2), the smallest value of the class has
\* offset 0 and the largest has offset C(u, c) - 1.
C5_EncodeOrderPreserving ==
    query.op = "encode" =>
        /\ Lt(query.offset, binomial_entry(block_nbits, query.class))
        /\ (query.class \in { 0, block_nbits } => query.offset = Zero)
        /\ (query.value = 0 .. (query.class - 1) => query.offset = Zero)
        /\ (query.value = (block_nbits - query.class) .. (block_nbits - 1) =>
               Add(query.offset, One) = binomial_entry(block_nbits, query.class))
        /\ (local.op \in { "encode", "decode" } /\ local.class = query.class =>
               /\ Lt(local.value, query.value) => Lt(local.offset, query.offset)
               /\ Lt(query.value, local.value) => Lt(query.offset, local.offset))

\* two values of one class of a 64-bit block, neither class 0 nor class 64,
\* were encoded one after the other, the smaller first
C5_Witness ==
    /\ block_nbits = MAX_BLOCK_NBITS
    /\ query.op = "encode"
    /\ local.op = "encode"
    /\ local.class = query.class
    /\ query.class \in 1 .. (block_nbits - 1)
    /\ Lt(local.value, query.value)
    /\ Lt(local.offset, query.offset)

\* C6 -- marker consistency: after rrr_alloc returns, marked_ranks[m] is the
\* number of 1-bits in B[0 .. min((m+1)*s, |B|)) for every m in
\* [0, nmarkers), the last marker included.
C6_MarkerConsistency ==
    (Ready /\ ValidArguments) =>
        \A m \in 0 .. (rrr.nmarkers - 1) :
            rrr.marked_ranks.data[m] =
                PrefixOnes(Min({ (m + 1) * marker_nbits, bits.size }))

\* C7 -- the sentinel of select1: rrr_select1(0) and rrr_select1(j) with
\* j > rank return 0, with no read out of bounds and no failed assertion.
C7_SelectSentinel ==
    (Ready /\ query.op = "select1" /\ (query.arg = 0 \/ query.arg > rrr.rank)) =>
        (query.fault = "none" /\ query.ret = 0)

\* rrr_select1(0) returned on an instance of more than one marker period
\* whose first marker has rank 0, so that the binary search ran
C7_Witness ==
    /\ Ready
    /\ query.op = "select1"
    /\ query.arg = 0
    /\ rrr.size > rrr.marker_nbits
    /\ rrr.marked_ranks.data[0] = 0
    /\ query.fault = "none"
    /\ query.ret = 0

\* C8 -- a call of rrr_alloc with u outside 1 .. 64, with s < u or with an
\* empty source ends in the failed assertion: it does not divide by u, does
\* not run the loop and returns no instance.
C8_PreconditionAborts ==
    (pc # "call" /\ ~ValidArguments) => pc = "abort"

\* C9 -- one-shot publication, in any interleaving: a thread that finds the
\* handle non-null finds every row of the table written and reads no
\* unwritten entry, and a construction that starts after one has completed
\* writes no entry.
C9_PublishedWhole ==
    \A t \in Threads :
        /\ thr[t].saw = "table" => (thr[t].intact /\ thr[t].pc # "ub")
        /\ thr[t].late => ~thr[t].wrote

\* C9 as amended -- the same, for a call that shares no moment with
\* another call: what the caller's serialization gives.
C9_PublishedWholeSerialized ==
    \A t \in Threads :
        ~thr[t].raced =>
            /\ thr[t].pc # "ub"
            /\ thr[t].saw = "table" => thr[t].intact
            /\ thr[t].late => ~thr[t].wrote

\* a call that overlapped no other started after a construction had
\* completed, found the handle non-null and finished
C9_Witness ==
    \E t \in Threads :
        /\ ~thr[t].raced
        /\ thr[t].late
        /\ thr[t].saw = "table"
        /\ thr[t].pc = "done"

\* the markers a query can jump from: m = i / s for a position i, and what
\* rrr_find_marker returns for a j in [1, rank]
JumpMarkers ==
    { i \div rrr.marker_nbits : i \in 0 .. (rrr.size - 1) }
    \cup UNION { { f.marker_at.n : f \in { g \in rrr_find_marker(rrr, j) :
                                             g.fault = "none" /\ g.marker_at.wrapped = 0 } }
                 : j \in 1 .. rrr.rank }

\* C10 -- marker-jump consistency: for every marker index m >= 1 a query
\* jumps from, marked_offsets[m-1] is the sum of the offset widths of the
\* blocks before class_idx = (m*s)/u and marked_ranks[m-1] is the number of
\* 1-bits in those blocks.
C10_MarkerJump ==
    (Ready /\ ValidArguments) =>
        \A m \in JumpMarkers :
            m >= 1 =>
                LET class_idx == (m * rrr.marker_nbits) \div rrr.block_nbits
                IN  /\ m - 1 < rrr.nmarkers
                    /\ class_idx <= rrr.nblocks
                    /\ rrr.marked_offsets.data[m - 1] = WidthsBefore(rrr, class_idx)
                    /\ rrr.marked_ranks.data[m - 1] = ClassesBefore(rrr, class_idx)

\* the first block that starts at or after the end of marker period i, or
\* the end of the blocks when there is none
FirstBlockFrom(i) ==
    Min({ rrr.nblocks, ((i + 1) * marker_nbits + block_nbits - 1) \div block_nbits })

\* C11 -- marked_offsets: after rrr_alloc returns, every marked_offsets[i],
\* i in [0, nmarkers), read back at its record width, is the position in
\* offsets of the first block that starts at or after bit (i+1)*s.
C11_MarkedOffsets ==
    (Ready /\ ValidArguments) =>
        \A i \in 0 .. (rrr.nmarkers - 1) :
            bit_vector_read_record(rrr.marked_offsets, i)
                = { WidthsBefore(rrr, FirstBlockFrom(i)) }

\* one more than the largest marker whose rank is below j, 0 when there is
\* none
MarkerBelow(ranks, j) ==
    LET below == { m \in DOMAIN ranks : ranks[m] < j }
    IN  IF below = {} THEN 0 ELSE Max(below) + 1

\* C12 -- the binary search of rrr_find_marker: on an instance of more than
\* one period and for marked_ranks[0] <= j <= rank, the search ends without
\* a read out of bounds and returns one more than the largest marker index
\* whose rank is below j (0 when there is none), a value of at most
\* nmarkers, whichever way the loop is left.
C12_FindMarker ==
    (Ready /\ ValidArguments /\ rrr.size > rrr.marker_nbits) =>
        \A ranks \in MarkedRanksRead(rrr) :
            \A j \in ranks[0] .. rrr.rank :
                LET found == FindMarkerOn(rrr, ranks, j)
                IN  /\ found.fault = "none"
                    /\ found.marker_at.wrapped = 0
                    /\ found.marker_at.n <= rrr.nmarkers
                    /\ found.marker_at.n = MarkerBelow(ranks, j)

\* block k of B, the bits past the end of B being zero
SourceBlock(k) ==
    { b \in 0 .. (block_nbits - 1) : (k * block_nbits + b) \in bits.data }

\* ceil(log2 v) of a word v >= 1: the least w with v <= 2^w
CeilLog2(v) ==
    IF Cardinality(v) = 1 THEN Max(v) ELSE Max(v) + 1

\* C13 -- tightly packed offsets: after rrr_alloc returns, class k is the
\* popcount of block k (the last block zero-padded), the offset of block k
\* lies at the sum of the widths of the blocks before it and is
\* ceil(log2 C(u, class_k)) bits wide (no bits for class 0 and class u),
\* and offsets has been resized to the sum of all widths, which is at most
\* the nblocks * ceil(log2 C(u, u/2)) bits provisioned; no write went past
\* the provisioned bits.
C13_PackedOffsets ==
    /\ ValidArguments => pc # "oob_write"
    /\ (Ready /\ ValidArguments) =>
           /\ \A k \in 0 .. (rrr.nblocks - 1) :
                  LET class == rrr.classes.data[k]
                      width == offset_nbits(block_nbits, class)
                  IN  /\ class = popcount(SourceBlock(k))
                      /\ width = CeilLog2(binomial_entry(block_nbits, class))
                      /\ class \in { 0, block_nbits } => width = 0
                      /\ bit_vector_read(rrr.offsets, WidthsBefore(rrr, k), width)
                             = rrr_encode_block(block_nbits, class, SourceBlock(k))
           /\ rrr.offsets.size = WidthsBefore(rrr, rrr.nblocks)
           /\ rrr.offsets.size <= rrr.nblocks * offset_nbits(block_nbits, block_nbits \div 2)
           /\ \A b \in rrr.offsets.data : b < rrr.offsets.size

\* an instance of several blocks, the last one padded, with a block whose
\* offset takes no bits, a block whose offset takes some, and less space
\* used than provisioned
C13_Witness ==
    /\ Ready
    /\ ValidArguments
    /\ rrr.nblocks >= 2
    /\ bits.size % block_nbits # 0
    /\ \E k \in 0 .. (rrr.nblocks - 1) : rrr.classes.data[k] \in { 0, block_nbits }
    /\ \E k \in 0 .. (rrr.nblocks - 1) : offset_nbits(block_nbits, rrr.classes.data[k]) > 0
    /\ rrr.offsets.size = WidthsBefore(rrr, rrr.nblocks)
    /\ rrr.offsets.size < rrr.nblocks * offset_nbits(block_nbits, block_nbits \div 2)

\* Natural numbers below 2^128 as sets of bit positions, added without a
\* modulus: the exact coefficients, by Pascal's rule.
ExactBits == 2 * WordBits

ExactAdd(a, b) == { i \in 0 .. (ExactBits - 1) : ((i \in a) # (i \in b)) # Carry(a, b, i) }

\* row n by Pascal's rule from row n - 1; entry k of a row is row[k]
ExactRow(n, prev) ==
    [ k \in 0 .. n |->
        IF k = 0 \/ k = n THEN One
        ELSE ExactAdd(prev[k - 1], prev[k]) ] @@ << >>

ExactRows[n \in 0 .. MAX_BLOCK_NBITS] ==
    IF n = 0 THEN << ExactRow(0, << >>) >>
    ELSE LET rows == ExactRows[n - 1]
         IN  Append(rows, ExactRow(n, rows[n]))

ExactTable == ExactRows[MAX_BLOCK_NBITS]

\* C(n, k)
Exact(n, k) == ExactTable[n + 1][k]

\* the entries 0 .. k of a row added up
RECURSIVE ExactSum(_, _)
ExactSum(row, k) ==
    IF k < 0 THEN Zero
    ELSE LET rest == ExactSum(row, k - 1)
         IN  IF rest \subseteq 0 .. (ExactBits - 1)
             THEN ExactAdd(row[k], rest)
             ELSE rest

\* C14 -- binomial table without overflow: rrr_precompute_binomials reads
\* no entry that was not written earlier and no addition carries out of
\* bit 63; when it returns, every binomial[n][k] with 0 <= k <= n <= 64 is
\* written and is the exact C(n, k): 1 at both ends of a row, Pascal's rule
\* in unbounded arithmetic inside, each row adding up to 2^n; the largest
\* entry C(64, 32) is below 2^64.
C14_TableExact ==
    /\ pc # "ub"
    /\ ~local.unwritten
    /\ ~local.wrapped
    /\ pc = "return" =>
           /\ binomial = TABLE
           /\ Len(local.rows) = MAX_BLOCK_NBITS + 1
           /\ \A n \in 0 .. MAX_BLOCK_NBITS :
                  LET row == local.rows[n + 1]
                  IN  /\ DOMAIN row = 0 .. n
                      /\ row[0] = One
                      /\ row[n] = One
                      /\ \A k \in 0 .. n :
                             /\ row[k] = Exact(n, k)
                             /\ row[k] = binomial_entry(n, k)
                             /\ row[k] \subseteq 0 .. (WordBits - 1)
                      /\ ExactSum(row, n) = { n }
           /\ \A n \in 0 .. MAX_BLOCK_NBITS : \A k \in 0 .. n :
                  Le(Exact(n, k), Exact(MAX_BLOCK_NBITS, MAX_BLOCK_NBITS \div 2))

\* the call has returned with the last row written; its middle entry
\* C(64, 32) needs bit 60, and a later call has found the handle non-null
C14_Witness ==
    /\ pc = "return"
    /\ local.calls = MaxCalls
    /\ Len(local.rows) = MAX_BLOCK_NBITS + 1
    /\ DOMAIN local.rows[MAX_BLOCK_NBITS + 1] = 0 .. MAX_BLOCK_NBITS
    /\ Max(local.rows[MAX_BLOCK_NBITS + 1][MAX_BLOCK_NBITS \div 2]) = 60

\* C15 -- marker writes stay in bounds: for a non-empty B and 1 <= u <= s,
\* at the start of every iteration of the block loop marker_need is in
\* [1, s], the markers emitted so far are exactly the whole periods of s
\* bits in the k * u bits consumed (so no block owes more than the one
\* marker it can emit), an iteration that writes a marker does so at
\* marker_at < nmarkers = ceil(n / s), and the loop never writes outside a
\* vector.
C15_MarkerBounds ==
    ValidArguments =>
        /\ pc # "oob_write"
        /\ pc = "loop" =>
               /\ rrr.nmarkers = (bits.size + marker_nbits - 1) \div marker_nbits
               /\ local.marker_need \in 1 .. marker_nbits
               /\ local.marker_at * marker_nbits + (marker_nbits - local.marker_need)
                      = local.k * block_nbits
               /\ local.marker_at <= rrr.nmarkers
               /\ (local.k < rrr.nblocks /\ block_nbits >= local.marker_need)
                      => local.marker_at < rrr.nmarkers

\* the loop is over, every allocated marker record has been written, at
\* least two of them, and some block emitted no marker
C15_Witness ==
    /\ ValidArguments
    /\ pc = "loop"
    /\ local.k = rrr.nblocks
    /\ rrr.nmarkers >= 2
    /\ local.marker_at = rrr.nmarkers
    /\ rrr.nblocks > rrr.nmarkers

====
